---------------------------- MODULE Spec2Model ----------------------------
(***************************************************************************)
(* A model of the client-side page renderer of                             *)
(* src/assets/js/mobile-nav.js (the page-renderer part, lines 55-505).     *)
(*                                                                         *)
(* JavaScript strings whose characters matter (paths, field values) are    *)
(* sequences of one-character strings.  The literal pieces of a markup     *)
(* template are kept as single tokens (one multi-character string each),   *)
(* so the markup a renderer produces is a sequence of tokens in which the  *)
(* one-character tokens are exactly the characters that came out of the    *)
(* interpolated, possibly escaped, field values.                           *)
(***************************************************************************)
EXTENDS Naturals, Sequences, FiniteSets, TLC

VARIABLES
    \* ---- the page the script runs in
    pathname,        \* window.location.pathname
    hasRoot,         \* whether #content-root exists
    hasMetaDesc,     \* whether <meta name="description"> exists
    navLinks,        \* the .nav-link elements: href, class is-active, aria-current
    footerSlots,     \* which of the footer slot elements exist
    \* ---- the content chain (Page Assembler)
    pc,              \* position of the content promise chain
    state,           \* Page Assembler state
    visited,         \* the states the assembler went through, in order
    rootHTML,        \* children of #content-root
    ariaBusy,        \* aria-busy attribute of #content-root
    title,           \* document.title
    metaDesc,        \* content attribute of the meta description
    contentFetches,  \* locators passed to fetch() by init
    contentOutcome,  \* what the content fetch / parse produced
    doc,             \* the parsed content document
    consoleErrors,   \* console.error calls, in order
    renderCalls,     \* number of renderSection calls
    activeNavRuns,   \* number of setActiveNav calls
    \* ---- the chrome chain (Site Chrome Applier)
    navConfigPromise,\* module-level memo: 0 is null, n > 0 the n-th promise created
    navPromiseState, \* state of the memoized promise
    navFetches,      \* number of fetch(NAV_CONFIG_PATH) issued
    navOutcome,      \* what the nav fetch / parse produced
    chromePc,        \* position of the chrome promise chain
    footer,          \* the footer slots' content
    calls,           \* number of loadNavConfig calls so far
    returned,        \* what loadNavConfig returned: the promise, and the
                     \* state the memoized fetch was in at the call
    \* ---- single operations applied to an input
    section,         \* a section record handed to renderSection
    out,             \* what renderSection produced
    key,             \* what normalisePath produced
    fstep            \* whether the single operation has been applied

vars == <<pathname, hasRoot, hasMetaDesc, navLinks, footerSlots, pc, state,
          visited, rootHTML, ariaBusy, title, metaDesc, contentFetches,
          contentOutcome, doc, consoleErrors, renderCalls, activeNavRuns,
          navConfigPromise, navPromiseState, navFetches, navOutcome, chromePc,
          footer, calls, returned, section, out, key, fstep>>

pageVars == <<pathname, hasRoot, hasMetaDesc, footerSlots>>
contentVars == <<pc, state, visited, rootHTML, ariaBusy, title, metaDesc,
                 contentFetches, contentOutcome, doc, renderCalls,
                 activeNavRuns, navLinks>>
chromeVars == <<navConfigPromise, navPromiseState, navFetches, navOutcome,
                chromePc, footer, calls, returned>>
fnVars == <<section, out, key, fstep>>

---------------------------------------------------------------------------
(* Bounds of the model. *)

MaxPathLen == 3      \* longest generated path
MaxStrLen == 1       \* longest generated field value
MaxItems == 1        \* most items in a section's item list
MaxSections == 2     \* most sections in a content document
MaxCalls == 2        \* most calls of loadNavConfig in one page lifetime

---------------------------------------------------------------------------
(* Strings. *)

\* JavaScript's undefined, for a field that holds a string when present.
UNDEF == <<"undefined">>

RECURSIVE SeqsUpTo(_, _)
SeqsUpTo(S, n) ==
    IF n = 0 THEN {<<>>}
    ELSE LET shorter == SeqsUpTo(S, n - 1)
         IN  shorter \cup {Append(s, c) : s \in shorter, c \in S}

\* a || b for string-valued a
Truthy(v) == v # UNDEF /\ v # <<>>
OrElse(v, d) == IF Truthy(v) THEN v ELSE d

UPPER == <<"A", "B", "C", "D", "E", "F", "G", "H", "I", "J", "K", "L", "M",
           "N", "O", "P", "Q", "R", "S", "T", "U", "V", "W", "X", "Y", "Z">>
LOWER == <<"a", "b", "c", "d", "e", "f", "g", "h", "i", "j", "k", "l", "m",
           "n", "o", "p", "q", "r", "s", "t", "u", "v", "w", "x", "y", "z">>

\* String.prototype.toLowerCase
toLowerCase(s) ==
    [i \in 1..Len(s) |->
        IF \E k \in 1..26 : UPPER[k] = s[i]
        THEN LOWER[CHOOSE k \in 1..26 : UPPER[k] = s[i]]
        ELSE s[i]]

\* s.replace(/\/+$/, '')
RECURSIVE stripTrailingSlashes(_)
stripTrailingSlashes(s) ==
    IF s # <<>> /\ s[Len(s)] = "/"
    THEN stripTrailingSlashes(SubSeq(s, 1, Len(s) - 1))
    ELSE s

\* A plausible slip: the regular expression without the +, which removes
\* one trailing slash only.
normalisePathOneSlash(p) ==
    LET q == toLowerCase(IF p # <<>> /\ p[Len(p)] = "/"
                         THEN SubSeq(p, 1, Len(p) - 1) ELSE p)
    IN  IF q = <<>> THEN <<"/">> ELSE q

normalisePath(p) ==
    LET q == toLowerCase(stripTrailingSlashes(p))
    IN  IF q = <<>> THEN <<"/">> ELSE q

\* str.replace(/c/g, r)
RECURSIVE replaceAll(_, _, _)
replaceAll(s, c, r) ==
    IF s = <<>> THEN <<>>
    ELSE (IF Head(s) = c THEN r ELSE <<Head(s)>>) \o replaceAll(Tail(s), c, r)

AMP == <<"&", "a", "m", "p", ";">>
LT == <<"&", "l", "t", ";">>
GT == <<"&", "g", "t", ";">>
QUOT == <<"&", "q", "u", "o", "t", ";">>

\* A plausible slip: the ampersand replaced last, which escapes the
\* ampersands of the entities just written.
escAmpLast(str) ==
    IF str = UNDEF THEN <<>>
    ELSE replaceAll(replaceAll(replaceAll(replaceAll(str, "<", LT),
                                          ">", GT), "\"", QUOT), "&", AMP)

esc(str) ==
    IF str = UNDEF THEN <<>>
    ELSE replaceAll(replaceAll(replaceAll(replaceAll(str, "&", AMP),
                                          "<", LT), ">", GT), "\"", QUOT)


---------------------------------------------------------------------------
(* Section records.  A section is a YAML mapping (kind "mapping") or a     *)
(* null entry of the sections sequence (kind "null").                      *)

\* a section without a type key
NoType == "(no type)"

NoItem ==
    [label |-> UNDEF, value |-> UNDEF, term |-> UNDEF, definition |-> UNDEF,
     heading |-> UNDEF, description |-> UNDEF, name |-> UNDEF,
     title |-> UNDEF, bio |-> UNDEF, method |-> UNDEF, href |-> UNDEF,
     url |-> UNDEF]

NoSection ==
    [kind |-> "mapping", type |-> NoType, id |-> UNDEF, heading |-> UNDEF,
     subheading |-> UNDEF, body |-> UNDEF, label |-> UNDEF, url |-> UNDEF,
     last_updated |-> UNDEF, external |-> FALSE, hasItems |-> FALSE,
     items |-> <<>>]

NullSection == [NoSection EXCEPT !.kind = "null"]

RECURSIVE Flatten(_)
Flatten(ss) == IF ss = <<>> THEN <<>> ELSE Head(ss) \o Flatten(Tail(ss))

\* s.items || []
itemsOf(s) == IF s.hasItems THEN s.items ELSE <<>>

---------------------------------------------------------------------------
(* Utility functions and section renderers. *)

\* An element: what createSection returns, before innerHTML is assigned.
createSection(s) ==
    [kind |-> "element",
     className |-> <<"section section--",
                     IF s.type = NoType \/ s.type = "" THEN "text" ELSE s.type>>,
     id |-> IF Truthy(s.id) THEN s.id ELSE UNDEF,
     innerHTML |-> <<>>]

sectionLabel(label) ==
    IF Truthy(label)
    THEN <<"<h2 class=\"section-label\">">> \o esc(label) \o <<"</h2>">>
    ELSE <<>>

withInner(s, html) == [createSection(s) EXCEPT !.innerHTML = html]

render_hero(s) ==
    withInner(s,
        <<"<div class=\"section-inner\">", "<h1 class=\"hero-heading\">">>
        \o esc(OrElse(s.heading, <<>>)) \o <<"</h1>">>
        \o (IF Truthy(s.subheading)
            THEN <<"<p class=\"hero-subheading\">">> \o esc(s.subheading) \o <<"</p>">>
            ELSE <<>>)
        \o <<"</div>">>)

render_page_header(s) ==
    withInner(s,
        <<"<div class=\"section-inner\">", "<h1 class=\"page-heading\">">>
        \o esc(OrElse(s.heading, <<>>)) \o <<"</h1>">>
        \o (IF Truthy(s.subheading)
            THEN <<"<p class=\"page-subheading\">">> \o esc(s.subheading) \o <<"</p>">>
            ELSE <<>>)
        \o <<"</div>">>)

render_summary(s) ==
    LET item(it) ==
            <<"<div class=\"summary-item\">", "<dt class=\"summary-term\">">>
            \o esc(it.label) \o <<"</dt>", "<dd class=\"summary-value\">">>
            \o esc(it.value) \o <<"</dd>", "</div>">>
    IN  withInner(s,
            <<"<div class=\"section-inner\">">> \o sectionLabel(s.label)
            \o <<"<dl class=\"summary-list\">">> \o Flatten([i \in DOMAIN itemsOf(s) |-> item(itemsOf(s)[i])])
            \o <<"</dl>", "</div>">>)

render_statement(s) ==
    withInner(s,
        <<"<div class=\"section-inner\">", "<p class=\"statement-body\">">>
        \o esc(OrElse(s.body, <<>>)) \o <<"</p>", "</div>">>)

render_text_block(s) ==
    withInner(s,
        <<"<div class=\"section-inner\">">> \o sectionLabel(s.label)
        \o <<"<div class=\"text-body\">">>
        \o replaceAll(esc(OrElse(s.body, <<>>)), "\n", <<"<br>">>)
        \o <<"</div>", "</div>">>)

render_definition_list(s) ==
    LET item(it) ==
            <<"<div class=\"def-item\">", "<dt class=\"def-term\">">>
            \o esc(it.term) \o <<"</dt>", "<dd class=\"def-value\">">>
            \o esc(it.definition) \o <<"</dd>", "</div>">>
    IN  withInner(s,
            <<"<div class=\"section-inner\">">> \o sectionLabel(s.label)
            \o <<"<dl class=\"def-list\">">> \o Flatten([i \in DOMAIN itemsOf(s) |-> item(itemsOf(s)[i])])
            \o <<"</dl>", "</div>">>)

render_activity_list(s) ==
    LET item(it) ==
            <<"<div class=\"activity-item\">", "<h2 class=\"activity-heading\">">>
            \o esc(it.heading) \o <<"</h2>", "<p class=\"activity-description\">">>
            \o esc(it.description) \o <<"</p>", "</div>">>
    IN  withInner(s,
            <<"<div class=\"section-inner\">">> \o sectionLabel(s.label)
            \o <<"<div class=\"activity-list\">">> \o Flatten([i \in DOMAIN itemsOf(s) |-> item(itemsOf(s)[i])])
            \o <<"</div>", "</div>">>)

render_persons(s) ==
    LET item(it) ==
            <<"<article class=\"person-item\">", "<h2 class=\"person-name\">">>
            \o esc(it.name) \o <<"</h2>">>
            \o (IF Truthy(it.title)
                THEN <<"<p class=\"person-title\">">> \o esc(it.title) \o <<"</p>">>
                ELSE <<>>)
            \o (IF Truthy(it.bio)
                THEN <<"<p class=\"person-bio\">">> \o esc(it.bio) \o <<"</p>">>
                ELSE <<>>)
            \o <<"</article>">>
    IN  withInner(s,
            <<"<div class=\"section-inner\">">> \o sectionLabel(s.label)
            \o <<"<div class=\"persons-list\">">> \o Flatten([i \in DOMAIN itemsOf(s) |-> item(itemsOf(s)[i])])
            \o <<"</div>", "</div>">>)

render_contact_block(s) ==
    LET val(it) ==
            IF Truthy(it.href)
            THEN <<"<a href=\"">> \o esc(it.href) \o <<"\">">>
                 \o esc(it.value) \o <<"</a>">>
            ELSE esc(it.value)
        item(it) ==
            <<"<div class=\"contact-item\">", "<dt class=\"contact-method\">">>
            \o esc(it.method) \o <<"</dt>", "<dd class=\"contact-value\">">>
            \o val(it) \o <<"</dd>", "</div>">>
    IN  withInner(s,
            <<"<div class=\"section-inner\">">> \o sectionLabel(s.label)
            \o <<"<dl class=\"contact-list\">">> \o Flatten([i \in DOMAIN itemsOf(s) |-> item(itemsOf(s)[i])])
            \o <<"</dl>", "</div>">>)

render_link(s) ==
    withInner(s,
        <<"<div class=\"section-inner\">", "<a href=\"">>
        \o esc(OrElse(s.url, <<"#">>))
        \o <<IF s.external
             THEN "\" class=\"official-link\" target=\"_blank\" rel=\"noopener noreferrer\">"
             ELSE "\" class=\"official-link\">">>
        \o esc(OrElse(s.label, <<"Visit Official Website">>))
        \o <<"</a>", "</div>">>)

render_back_link(s) ==
    withInner(s,
        <<"<div class=\"section-inner\">", "<a href=\"">>
        \o esc(OrElse(s.url, <<"/legal/">>))
        \o <<"\" class=\"back-link\">">>
        \o esc(OrElse(s.label, <<"Back">>))
        \o <<"</a>", "</div>">>)

render_legal_nav(s) ==
    LET item(it) ==
            <<"<li>", "<a href=\"">> \o esc(it.url)
            \o <<"\" class=\"legal-nav-link\">">> \o esc(it.label)
            \o <<"</a>", "</li>">>
    IN  withInner(s,
            <<"<div class=\"section-inner\">">> \o sectionLabel(s.label)
            \o <<"<ul class=\"legal-nav-list\" role=\"list\">">>
            \o Flatten([i \in DOMAIN itemsOf(s) |-> item(itemsOf(s)[i])])
            \o <<"</ul>", "</div>">>)

render_legal_document(s) ==
    withInner(s,
        <<"<div class=\"section-inner\">">>
        \o (IF Truthy(s.last_updated)
            THEN <<"<p class=\"legal-updated\">Last updated: ">>
                 \o esc(s.last_updated) \o <<"</p>">>
            ELSE <<>>)
        \o <<"<div class=\"legal-body\">">> \o OrElse(s.body, <<>>)
        \o <<"</div>", "</div>">>)

\* The own keys of the renderers object.
RegisteredTypes ==
    {"hero", "page-header", "summary", "statement", "text-block",
     "definition-list", "activity-list", "persons", "contact-block", "link",
     "back-link", "legal-nav", "legal-document"}

renderers(t, s) ==
    CASE t = "hero" -> render_hero(s)
      [] t = "page-header" -> render_page_header(s)
      [] t = "summary" -> render_summary(s)
      [] t = "statement" -> render_statement(s)
      [] t = "text-block" -> render_text_block(s)
      [] t = "definition-list" -> render_definition_list(s)
      [] t = "activity-list" -> render_activity_list(s)
      [] t = "persons" -> render_persons(s)
      [] t = "contact-block" -> render_contact_block(s)
      [] t = "link" -> render_link(s)
      [] t = "back-link" -> render_back_link(s)
      [] t = "legal-nav" -> render_legal_nav(s)
      [] t = "legal-document" -> render_legal_document(s)

\* renderers is an object literal, so renderers[section.type] also finds
\* what it inherits from Object.prototype.
ObjectPrototypeKeys ==
    {"constructor", "__proto__", "hasOwnProperty", "isPrototypeOf",
     "propertyIsEnumerable", "toLocaleString", "toString", "valueOf",
     "__defineGetter__", "__defineSetter__", "__lookupGetter__",
     "__lookupSetter__"}

\* What a completed or abrupt evaluation yields when it is no element.
Thrown == [kind |-> "throw", className |-> <<>>, id |-> UNDEF, innerHTML |-> <<>>]
NonElement == [kind |-> "value", className |-> <<>>, id |-> UNDEF, innerHTML |-> <<>>]

\* renderer(section) for an inherited renderer, in strict mode (this is
\* undefined): Object(section) returns the section itself and
\* Object.prototype.toString returns a string; __proto__ is no function and
\* the other methods convert an undefined this to an object, a TypeError.
inheritedCall(t, s) ==
    IF t \in {"constructor", "toString"} THEN NonElement ELSE Thrown

fallback(s) ==
    withInner(s,
        <<"<div class=\"section-inner\">">>
        \o (IF Truthy(s.body) THEN <<"<p>">> \o esc(s.body) \o <<"</p>">> ELSE <<>>)
        \o <<"</div>">>)

renderSection(s) ==
    IF s.kind = "null" THEN Thrown
    ELSE IF s.type \in RegisteredTypes THEN renderers(s.type, s)
    ELSE IF s.type \in ObjectPrototypeKeys THEN inheritedCall(s.type, s)
    ELSE fallback(s)

---------------------------------------------------------------------------
(* Active navigation state. *)

IsPrefix(a, b) == Len(a) <= Len(b) /\ SubSeq(b, 1, Len(a)) = a

\* link.getAttribute('href') || ''
hrefOf(link) == IF link.href = UNDEF THEN <<>> ELSE link.href

\* A plausible slip: the root link not excluded from prefix matching.
isActiveRootPrefix(link, currentPath) ==
    LET href == normalisePath(hrefOf(link))
    IN  href = currentPath \/ IsPrefix(href, currentPath)

isActive(link, currentPath) ==
    LET href == normalisePath(hrefOf(link))
    IN  href = currentPath \/ (href # <<"/">> /\ IsPrefix(href, currentPath))

\* The links after setActiveNav, which reads window.location.pathname.
setActiveNav(links, locationPath) ==
    LET currentPath == normalisePath(locationPath)
    IN  [i \in DOMAIN links |->
            IF isActive(links[i], currentPath)
            THEN [links[i] EXCEPT !.isActive = TRUE, !.ariaCurrent = "page"]
            ELSE [links[i] EXCEPT !.isActive = FALSE, !.ariaCurrent = "none"]]

---------------------------------------------------------------------------
(* The URL -> YAML content map. *)

ROOT == <<"/">>
ABOUT == <<"/", "a", "b", "o", "u", "t">>
ACTIVITIES == <<"/", "a", "c", "t", "i", "v", "i", "t", "i", "e", "s">>
MANAGEMENT == <<"/", "m", "a", "n", "a", "g", "e", "m", "e", "n", "t">>
CONTACT == <<"/", "c", "o", "n", "t", "a", "c", "t">>
LEGAL == <<"/", "l", "e", "g", "a", "l">>
PRIVACY == <<"/", "l", "e", "g", "a", "l", "/", "p", "r", "i", "v", "a", "c",
             "y", "-", "p", "o", "l", "i", "c", "y">>
TERMS == <<"/", "l", "e", "g", "a", "l", "/", "t", "e", "r", "m", "s", "-",
           "o", "f", "-", "u", "s", "e">>
COOKIE == <<"/", "l", "e", "g", "a", "l", "/", "c", "o", "o", "k", "i", "e",
            "-", "n", "o", "t", "i", "c", "e">>
IPNOTICE == <<"/", "l", "e", "g", "a", "l", "/", "i", "p", "-", "n", "o", "t",
              "i", "c", "e">>

CONTENT_KEYS ==
    {ROOT, ABOUT, ACTIVITIES, MANAGEMENT, CONTACT, LEGAL, PRIVACY, TERMS,
     COOKIE, IPNOTICE}

CONTENT_MAP ==
    [k \in CONTENT_KEYS |->
        CASE k = ROOT -> "content/home.yml"
          [] k = ABOUT -> "content/about.yml"
          [] k = ACTIVITIES -> "content/activities.yml"
          [] k = MANAGEMENT -> "content/management.yml"
          [] k = CONTACT -> "content/contact.yml"
          [] k = LEGAL -> "content/legal/index.yml"
          [] k = PRIVACY -> "content/legal/privacy-policy.yml"
          [] k = TERMS -> "content/legal/terms-of-use.yml"
          [] k = COOKIE -> "content/legal/cookie-notice.yml"
          [] k = IPNOTICE -> "content/legal/ip-notice.yml"]

NAV_CONFIG_PATH == "content/nav.yml"

\* no entry: CONTENT_MAP[pathname] is undefined
NoLocator == "undefined"

\* A plausible slip: the longest key that is a prefix of the path wins.
lookupByPrefix(p) ==
    IF \E k \in CONTENT_KEYS : k # ROOT /\ IsPrefix(k, p)
    THEN CONTENT_MAP[CHOOSE k \in CONTENT_KEYS :
            /\ k # ROOT /\ IsPrefix(k, p)
            /\ \A j \in CONTENT_KEYS :
                  (j # ROOT /\ IsPrefix(j, p)) => Len(j) <= Len(k)]
    ELSE IF p = ROOT THEN CONTENT_MAP[ROOT] ELSE NoLocator

\* CONTENT_MAP[pathname]
lookup(p) == IF p \in CONTENT_KEYS THEN CONTENT_MAP[p] ELSE NoLocator

---------------------------------------------------------------------------
(* Documents the two fetches may deliver. *)

\* A parsed content document.  kind "undefined" is what jsyaml.load gives
\* for an empty file.
NoDoc ==
    [kind |-> "undefined", hasMeta |-> FALSE, title |-> UNDEF,
     description |-> UNDEF, hasSections |-> FALSE, sections |-> <<>>]

HeroSec == [NoSection EXCEPT !.type = "hero", !.heading = <<"H", "i">>]
CustomSec == [NoSection EXCEPT !.type = "custom-type", !.body = <<"<", "b", ">">>]
SectionPool == {HeroSec, CustomSec, NullSection}

MetaInputs ==
    {[hasMeta |-> FALSE, title |-> UNDEF, description |-> UNDEF],
     [hasMeta |-> TRUE, title |-> <<"H", "o", "m", "e">>, description |-> <<"D">>]}

DocInputs ==
    {NoDoc}
    \cup {[NoDoc EXCEPT !.kind = "mapping", !.hasMeta = m.hasMeta,
                        !.title = m.title, !.description = m.description] :
            m \in MetaInputs}
    \cup {[kind |-> "mapping", hasMeta |-> m.hasMeta, title |-> m.title,
           description |-> m.description, hasSections |-> TRUE,
           sections |-> ss] :
            m \in MetaInputs, ss \in SeqsUpTo(SectionPool, MaxSections)}

\* A parsed navigation/footer document.
NoNav ==
    [kind |-> "null", site_name |-> UNDEF, entity_name |-> UNDEF,
     state_of_registration |-> UNDEF, state |-> UNDEF,
     business_email |-> UNDEF, copyright_year |-> UNDEF]

NavInputs ==
    {NoNav,
     [NoNav EXCEPT !.kind = "mapping"],
     [NoNav EXCEPT !.kind = "mapping", !.site_name = <<"N">>, !.state = <<"T">>],
     [NoNav EXCEPT !.kind = "mapping", !.entity_name = <<"A", "&", "B">>,
                   !.site_name = <<"N">>, !.state_of_registration = <<"S">>,
                   !.state = <<"T">>, !.business_email = <<"m", "@", "x">>,
                   !.copyright_year = <<"2", "0", "2", "4">>]}

\* Static markup of the page before the script runs.
InitialTitle == <<"(static title)">>
InitialDesc == <<"(static description)">>
InitialFooter ==
    [name |-> <<"(static name)">>, state |-> <<"(static state)">>,
     email |-> <<"(static email)">>, emailHref |-> <<"(static href)">>,
     copyright |-> <<"(static copyright)">>]
LoadingRoot == [kind |-> "loading", children |-> <<>>]
NotFoundRoot == [kind |-> "Page Not Found", children |-> <<>>]
FailedRoot == [kind |-> "Content could not be loaded.", children |-> <<>>]
SiteLinks ==
    <<[href |-> <<"/">>, isActive |-> TRUE, ariaCurrent |-> "page"],
      [href |-> <<"/", "a", "b", "o", "u", "t", "/">>, isActive |-> FALSE,
       ariaCurrent |-> "none"],
      [href |-> LEGAL, isActive |-> FALSE, ariaCurrent |-> "none"]>>

PagePaths ==
    {ROOT,
     <<"/", "A", "b", "o", "u", "t", "/">>,
     <<"/", "a", "b", "o", "u", "t", "/", "t", "e", "a", "m">>,
     <<"/", "u", "n", "k", "n", "o", "w", "n", "-", "p", "a", "g", "e">>}

FooterSlotInputs ==
    {{"name", "state", "email", "copyright"}, {"name", "copyright"}}

---------------------------------------------------------------------------
(* Initial values shared by the specifications. *)

\* What a fetch came to: nothing yet, a network error, or a response with
\* its HTTP status; and whether the text parsed.
NoOutcome == [settled |-> "none", status |-> 0, parsed |-> "none"]

Responses ==
    {[settled |-> "network-error", status |-> 0, parsed |-> "none"]}
    \cup {[settled |-> "response", status |-> st, parsed |-> "none"] :
            st \in {200, 500}}

ContentIdle ==
    /\ pc = "boot"
    /\ state = "Idle"
    /\ visited = <<"Idle">>
    /\ rootHTML = LoadingRoot
    /\ ariaBusy = "true"
    /\ title = InitialTitle
    /\ contentFetches = <<>>
    /\ contentOutcome = NoOutcome
    /\ doc = NoDoc
    /\ consoleErrors = <<>>
    /\ renderCalls = 0
    /\ activeNavRuns = 0

ChromeIdle ==
    /\ navConfigPromise = 0
    /\ navPromiseState = [status |-> "none", value |-> NoNav]
    /\ navFetches = 0
    /\ navOutcome = NoOutcome
    /\ chromePc = "idle"
    /\ footer = InitialFooter
    /\ calls = 0
    /\ returned = {}

FnIdle ==
    /\ section = NoSection
    /\ out = Thrown
    /\ key = <<>>
    /\ fstep = "none"

PageFixed ==
    /\ pathname = ROOT
    /\ hasRoot = TRUE
    /\ hasMetaDesc = TRUE
    /\ metaDesc = InitialDesc
    /\ navLinks = SiteLinks
    /\ footerSlots = {"name", "state", "email", "copyright"}

---------------------------------------------------------------------------
(* Site chrome: loadNavConfig, applySiteChrome, applyFooter. *)

\* A plausible slip: the memo trusted only once it holds a loaded document,
\* so a pending or failed fetch is started again.
mustFetchUnlessLoaded(memo, ps) ==
    memo = 0 \/ ps.status # "fulfilled" \/ ps.value.kind = "null"

\* if (!navConfigPromise)
mustFetch(memo, ps) == memo = 0

\* A plausible slip: the failure handler returning an empty document.
navCatchValueEmpty == [NoNav EXCEPT !.kind = "mapping"]

\* what the catch of loadNavConfig returns: null
navCatchValue == NoNav

\* The studio's name and the title's dash are written here in ASCII.
DEFAULT_ENTITY == <<"Nilufer Ormanli Studio LLC">>
CURRENT_YEAR == <<"(current year)">>

applyFooter(navData, ft, slots) ==
    LET entityName == OrElse(navData.entity_name,
                             OrElse(navData.site_name, DEFAULT_ENTITY))
        stateText == OrElse(navData.state_of_registration, navData.state)
        email == navData.business_email
        year == OrElse(navData.copyright_year, CURRENT_YEAR)
    IN  [name |-> IF "name" \in slots THEN entityName ELSE ft.name,
         state |-> IF "state" \in slots /\ Truthy(stateText)
                   THEN <<"Registered in ">> \o stateText ELSE ft.state,
         email |-> IF "email" \in slots /\ Truthy(email)
                   THEN email ELSE ft.email,
         emailHref |-> IF "email" \in slots /\ Truthy(email)
                       THEN <<"mailto:">> \o email ELSE ft.emailHref,
         copyright |-> IF "copyright" \in slots
                       THEN <<"&copy; ">> \o esc(year) \o <<" ">>
                            \o esc(entityName) \o <<". All rights reserved.">>
                       ELSE ft.copyright]

applySiteChrome(navData, ft, slots) ==
    IF navData.kind = "null" THEN ft ELSE applyFooter(navData, ft, slots)

\* Where the memoized fetch stands: not started, pending, or completed.
phase(ps) ==
    CASE ps.status = "none" -> "none"
      [] ps.status = "fulfilled" -> "completed"
      [] OTHER -> "pending"

\* loadNavConfig(): starts the fetch unless memoized, returns the memo.
LoadNavConfig ==
    /\ calls' = calls + 1
    /\ IF mustFetch(navConfigPromise, navPromiseState)
       THEN /\ navFetches' = navFetches + 1
            /\ navConfigPromise' = navFetches + 1
            /\ navPromiseState' = [status |-> "fetching", value |-> NoNav]
       ELSE UNCHANGED <<navFetches, navConfigPromise, navPromiseState>>
    /\ returned' = returned \cup {[promise |-> navConfigPromise',
                                   seen |-> phase(navPromiseState)]}

\* Any further caller of loadNavConfig during the page's lifetime, before,
\* while or after the fetch it memoizes is in flight.
CallLoadNavConfig ==
    /\ calls < MaxCalls
    /\ LoadNavConfig
    /\ UNCHANGED <<navOutcome, chromePc, footer, consoleErrors>>
    /\ UNCHANGED <<pageVars, contentVars, fnVars>>

\* res.ok
resOkAlways(status) == TRUE
resOk(status) == status \in 200..299

\* The nav fetch settles: a network error rejects it, a response runs the
\* first then of loadNavConfig.
NavResponse ==
    /\ navPromiseState.status = "fetching"
    /\ \E res \in Responses :
        /\ navOutcome' = res
        /\ navPromiseState' =
              [navPromiseState EXCEPT
                  !.status = IF res.settled = "response" /\ resOk(res.status)
                             THEN "text" ELSE "rejected"]
    /\ UNCHANGED <<navConfigPromise, navFetches, chromePc, footer, calls,
                   returned, consoleErrors>>
    /\ UNCHANGED <<pageVars, contentVars, fnVars>>

\* The second then of loadNavConfig: jsyaml.load(text) returns or throws.
NavParse ==
    /\ navPromiseState.status = "text"
    /\ \/ /\ navOutcome' = [navOutcome EXCEPT !.parsed = "error"]
          /\ navPromiseState' = [navPromiseState EXCEPT !.status = "rejected"]
       \/ \E d \in NavInputs :
          /\ navOutcome' = [navOutcome EXCEPT !.parsed = "ok"]
          /\ navPromiseState' = [status |-> "fulfilled", value |-> d]
    /\ UNCHANGED <<navConfigPromise, navFetches, chromePc, footer, calls,
                   returned, consoleErrors>>
    /\ UNCHANGED <<pageVars, contentVars, fnVars>>

\* The catch of loadNavConfig: log, resolve with null.
NavCatch ==
    /\ navPromiseState.status = "rejected"
    /\ consoleErrors' = Append(consoleErrors, "nav")
    /\ navPromiseState' = [status |-> "fulfilled", value |-> navCatchValue]
    /\ UNCHANGED <<navConfigPromise, navFetches, navOutcome, chromePc, footer,
                   calls, returned>>
    /\ UNCHANGED <<pageVars, contentVars, fnVars>>

\* loadNavConfig().then(applySiteChrome), attached by init.
ApplySiteChrome ==
    /\ chromePc = "waiting"
    /\ navPromiseState.status = "fulfilled"
    /\ footer' = applySiteChrome(navPromiseState.value, footer, footerSlots)
    /\ chromePc' = "done"
    /\ UNCHANGED <<navConfigPromise, navPromiseState, navFetches, navOutcome,
                   calls, returned, consoleErrors>>
    /\ UNCHANGED <<pageVars, contentVars, fnVars>>

---------------------------------------------------------------------------
(* The main initialiser and its promise chain. *)

TITLE_SUFFIX == <<" - Nilufer Ormanli Studio LLC">>

sectionsOf(d) == IF d.hasSections THEN d.sections ELSE <<>>

\* The sections whose rendering does not complete with an element: for
\* them renderSection or fragment.appendChild throws.
badSections(ss) == {i \in 1..Len(ss) : renderSection(ss[i]).kind # "element"}

firstBad(ss) ==
    IF badSections(ss) = {} THEN 0
    ELSE CHOOSE i \in badSections(ss) : \A j \in badSections(ss) : i <= j

\* A plausible slip: the busy attribute left alone on the not-found path.
renderNotFoundKeepBusy(busy) == [ariaBusy |-> busy, rootHTML |-> NotFoundRoot]

\* the not-found branch of init
renderNotFound(busy) == [ariaBusy |-> "false", rootHTML |-> NotFoundRoot]

\* init(), up to the point where it returns.
Boot ==
    /\ pc = "boot"
    /\ LoadNavConfig
    /\ chromePc' = "waiting"
    /\ UNCHANGED <<navOutcome, footer, consoleErrors>>
    /\ IF ~hasRoot
       THEN /\ pc' = "noroot"
            /\ UNCHANGED <<state, visited, rootHTML, ariaBusy, contentFetches>>
       ELSE LET yamlPath == lookup(normalisePath(pathname))
            IN  IF yamlPath = NoLocator
                THEN /\ ariaBusy' = renderNotFound(ariaBusy).ariaBusy
                     /\ rootHTML' = renderNotFound(ariaBusy).rootHTML
                     /\ state' = "NotFound"
                     /\ visited' = visited \o <<"Resolving", "NotFound">>
                     /\ pc' = "settled"
                     /\ UNCHANGED contentFetches
                ELSE /\ contentFetches' = Append(contentFetches, yamlPath)
                     /\ state' = "Fetching"
                     /\ visited' = visited \o <<"Resolving", "Fetching">>
                     /\ pc' = "fetching"
                     /\ UNCHANGED <<rootHTML, ariaBusy>>
    /\ UNCHANGED <<title, metaDesc, contentOutcome, doc, renderCalls,
                   activeNavRuns, navLinks>>
    /\ UNCHANGED <<pageVars, fnVars>>

\* The content fetch settles: a network error rejects it, a response runs
\* the first then (res.ok, res.text()).
ContentResponse ==
    /\ pc = "fetching"
    /\ \E res \in Responses :
        /\ contentOutcome' = res
        /\ pc' = IF res.settled = "response" /\ resOk(res.status)
                 THEN "text" ELSE "rejected"
    /\ UNCHANGED <<state, visited, rootHTML, ariaBusy, title, metaDesc,
                   contentFetches, doc, renderCalls, activeNavRuns, navLinks,
                   consoleErrors>>
    /\ UNCHANGED <<pageVars, chromeVars, fnVars>>

\* The second then, when jsyaml.load(text) throws.
ContentParseError ==
    /\ pc = "text"
    /\ contentOutcome' = [contentOutcome EXCEPT !.parsed = "error"]
    /\ pc' = "rejected"
    /\ UNCHANGED <<state, visited, rootHTML, ariaBusy, title, metaDesc,
                   contentFetches, doc, renderCalls, activeNavRuns, navLinks,
                   consoleErrors>>
    /\ UNCHANGED <<pageVars, chromeVars, fnVars>>

\* The second then, when jsyaml.load(text) returns data: title, meta
\* description, the sections in order, then the swap and setActiveNav.  An
\* exception leaves what was done before it and rejects the chain.
ContentThen ==
    /\ pc = "text"
    /\ \E d \in DocInputs :
        /\ doc' = d
        /\ contentOutcome' = [contentOutcome EXCEPT !.parsed = "ok"]
        /\ IF d.kind = "undefined"
           THEN \* data.meta of undefined: TypeError
                /\ pc' = "rejected"
                /\ state' = "Rendering"
                /\ visited' = Append(visited, "Rendering")
                /\ UNCHANGED <<title, metaDesc, renderCalls, rootHTML,
                               ariaBusy, navLinks, activeNavRuns>>
           ELSE LET ss == sectionsOf(d)
                    bad == firstBad(ss)
                IN  /\ title' = IF d.hasMeta /\ Truthy(d.title)
                                THEN d.title \o TITLE_SUFFIX ELSE title
                    /\ metaDesc' = IF d.hasMeta /\ Truthy(d.description) /\ hasMetaDesc
                                   THEN d.description ELSE metaDesc
                    /\ renderCalls' = renderCalls + (IF bad = 0 THEN Len(ss) ELSE bad)
                    /\ IF bad = 0
                       THEN /\ ariaBusy' = "false"
                            /\ rootHTML' =
                                  [kind |-> "sections",
                                   children |-> [i \in 1..Len(ss) |-> renderSection(ss[i])]]
                            /\ navLinks' = setActiveNav(navLinks, pathname)
                            /\ activeNavRuns' = activeNavRuns + 1
                            /\ state' = "Rendered"
                            /\ visited' = visited \o <<"Rendering", "Rendered">>
                            /\ pc' = "settled"
                       ELSE /\ pc' = "rejected"
                            /\ state' = "Rendering"
                            /\ visited' = Append(visited, "Rendering")
                            /\ UNCHANGED <<rootHTML, ariaBusy, navLinks, activeNavRuns>>
    /\ UNCHANGED <<contentFetches, consoleErrors>>
    /\ UNCHANGED <<pageVars, chromeVars, fnVars>>

\* the DOM writes of the catch of init
renderFailed(busy) == [ariaBusy |-> "false", rootHTML |-> FailedRoot]

\* The catch of the content chain.
ContentCatch ==
    /\ pc = "rejected"
    /\ consoleErrors' = Append(consoleErrors, "content")
    /\ ariaBusy' = renderFailed(ariaBusy).ariaBusy
    /\ rootHTML' = renderFailed(ariaBusy).rootHTML
    /\ state' = "Failed"
    /\ visited' = Append(visited, "Failed")
    /\ pc' = "settled"
    /\ UNCHANGED <<title, metaDesc, contentFetches, contentOutcome, doc,
                   renderCalls, activeNavRuns, navLinks>>
    /\ UNCHANGED <<pageVars, chromeVars, fnVars>>

Init ==
    /\ pathname \in PagePaths
    /\ hasRoot \in BOOLEAN
    /\ hasMetaDesc \in BOOLEAN
    /\ metaDesc = IF hasMetaDesc THEN InitialDesc ELSE UNDEF
    /\ navLinks = SiteLinks
    /\ footerSlots \in FooterSlotInputs
    /\ ContentIdle
    /\ ChromeIdle
    /\ FnIdle

Next ==
    \/ Boot
    \/ ContentResponse
    \/ ContentParseError
    \/ ContentThen
    \/ ContentCatch
    \/ CallLoadNavConfig
    \/ NavResponse
    \/ NavParse
    \/ NavCatch
    \/ ApplySiteChrome

Spec == Init /\ [][Next]_vars

---------------------------------------------------------------------------
(* normalisePath applied to one path. *)

PathAlphabet == {"/", "a", "A", "b"}

PathInputs ==
    SeqsUpTo(PathAlphabet, MaxPathLen)
    \cup PagePaths
    \cup {<<"/", "A", "B", "O", "U", "T">>, ABOUT,
          <<"/", "a", "b", "o", "u", "t", "/", "/">>}

InitPath ==
    /\ pathname \in PathInputs
    /\ hasRoot = TRUE
    /\ hasMetaDesc = TRUE
    /\ metaDesc = InitialDesc
    /\ navLinks = SiteLinks
    /\ footerSlots = {}
    /\ ContentIdle
    /\ ChromeIdle
    /\ FnIdle

NormaliseLocation ==
    /\ fstep = "none"
    /\ key' = normalisePath(pathname)
    /\ fstep' = "normalised"
    /\ UNCHANGED <<section, out, consoleErrors>>
    /\ UNCHANGED <<pageVars, contentVars, chromeVars>>

SpecPath == InitPath /\ [][NormaliseLocation]_vars

---------------------------------------------------------------------------
(* setActiveNav applied to a set of navigation links. *)

HrefInputs ==
    {UNDEF, <<>>, <<"/">>, <<"/", "a">>, <<"/", "A", "/">>, <<"/", "b">>,
     ABOUT, CONTACT}

LinkInputs ==
    {[href |-> h, isActive |-> a, ariaCurrent |-> IF a THEN "page" ELSE "none"] :
        h \in HrefInputs, a \in BOOLEAN}

NavPathInputs ==
    SeqsUpTo(PathAlphabet, MaxPathLen) \cup PagePaths \cup {ABOUT, CONTACT}

InitNav ==
    /\ pathname \in NavPathInputs
    /\ hasRoot = TRUE
    /\ hasMetaDesc = TRUE
    /\ metaDesc = InitialDesc
    /\ navLinks \in [1..2 -> LinkInputs]
    /\ footerSlots = {}
    /\ ContentIdle
    /\ ChromeIdle
    /\ FnIdle

SetActiveNav ==
    /\ fstep = "none"
    /\ navLinks' = setActiveNav(navLinks, pathname)
    /\ activeNavRuns' = activeNavRuns + 1
    /\ fstep' = "marked"
    /\ UNCHANGED <<section, out, key, consoleErrors>>
    /\ UNCHANGED <<pageVars, chromeVars>>
    /\ UNCHANGED <<pc, state, visited, rootHTML, ariaBusy, title, metaDesc,
                   contentFetches, contentOutcome, doc, renderCalls>>

SpecNav == InitNav /\ [][SetActiveNav]_vars

---------------------------------------------------------------------------
(* renderSection applied to one section. *)

FieldAlphabet == {"&", "<", ">", "\"", "a", "\n"}

SCRIPT == <<"<", "s", "c", "r", "i", "p", "t", ">">>

FieldStrs == SeqsUpTo(FieldAlphabet, MaxStrLen) \cup {SCRIPT}

TopFields ==
    {"id", "heading", "subheading", "body", "label", "url", "last_updated"}

\* Which top-level fields a section input carries, and its external flag.
FieldPatterns ==
    {[fields |-> {f}, external |-> FALSE] : f \in TopFields}
    \cup {[fields |-> {}, external |-> TRUE],
          [fields |-> TopFields, external |-> FALSE],
          [fields |-> TopFields, external |-> TRUE]}

ItemInputs(v) ==
    {NoItem,
     [label |-> v, value |-> v, term |-> v, definition |-> v, heading |-> v,
      description |-> v, name |-> v, title |-> UNDEF, bio |-> UNDEF,
      method |-> v, href |-> UNDEF, url |-> v],
     [label |-> v, value |-> v, term |-> v, definition |-> v, heading |-> v,
      description |-> v, name |-> v, title |-> v, bio |-> v, method |-> v,
      href |-> v, url |-> v]}

TypeInputs ==
    RegisteredTypes
    \cup {NoType, "custom-type", "constructor", "__proto__", "toString"}

ItemLists(v) ==
    {[has |-> FALSE, list |-> <<>>]}
    \cup {[has |-> TRUE, list |-> l] : l \in SeqsUpTo(ItemInputs(v), MaxItems)}

SectionWith(t, p, v, its) ==
    [kind |-> "mapping", type |-> t,
     id |-> IF "id" \in p.fields THEN v ELSE UNDEF,
     heading |-> IF "heading" \in p.fields THEN v ELSE UNDEF,
     subheading |-> IF "subheading" \in p.fields THEN v ELSE UNDEF,
     body |-> IF "body" \in p.fields THEN v ELSE UNDEF,
     label |-> IF "label" \in p.fields THEN v ELSE UNDEF,
     url |-> IF "url" \in p.fields THEN v ELSE UNDEF,
     last_updated |-> IF "last_updated" \in p.fields THEN v ELSE UNDEF,
     external |-> p.external,
     hasItems |-> its.has,
     items |-> its.list]

InitRender ==
    /\ \/ section = NullSection
       \/ \E t \in TypeInputs, p \in FieldPatterns, v \in FieldStrs :
             \E its \in ItemLists(v) : section = SectionWith(t, p, v, its)
    /\ out = Thrown
    /\ key = <<>>
    /\ fstep = "none"
    /\ PageFixed
    /\ ContentIdle
    /\ ChromeIdle

RenderSection ==
    /\ fstep = "none"
    /\ out' = renderSection(section)
    /\ renderCalls' = renderCalls + 1
    /\ fstep' = "rendered"
    /\ UNCHANGED <<section, key, consoleErrors>>
    /\ UNCHANGED <<pageVars, chromeVars>>
    /\ UNCHANGED <<pc, state, visited, rootHTML, ariaBusy, title, metaDesc,
                   contentFetches, contentOutcome, doc, activeNavRuns, navLinks>>

SpecRender == InitRender /\ [][RenderSection]_vars

---------------------------------------------------------------------------
(* Properties of normalisePath. *)

SameLetter(a, b) == a = b \/ \E k \in 1..26 : {a, b} = {UPPER[k], LOWER[k]}

OnlySlashesFrom(p, n) == \A i \in (n + 1)..Len(p) : p[i] = "/"

\* p and q differ only by letter case and by the number of trailing slashes
SamePathBut(p, q) ==
    \E n \in 0..Len(p) :
        /\ n <= Len(q)
        /\ OnlySlashesFrom(p, n)
        /\ OnlySlashesFrom(q, n)
        /\ \A i \in 1..n : SameLetter(p[i], q[i])

IsCanonical(k) ==
    /\ k # <<>>
    /\ \A i \in 1..Len(k) : \A j \in 1..26 : k[i] # UPPER[j]
    /\ k = <<"/">> \/ k[Len(k)] # "/"

\* C10: normalisePath gives one key to all paths that differ only by
\* trailing slashes or letter case; the key is lower-case, has no trailing
\* slash unless it is "/", is "/" for the empty path and for a path of
\* slashes only, and is a fixed point, as is every key of the content map.
C10_NormaliseCanonical ==
    fstep = "normalised" =>
        /\ IsCanonical(key)
        /\ OnlySlashesFrom(pathname, 0) => key = <<"/">>
        /\ normalisePath(key) = key
        /\ \A q \in PathInputs :
              SamePathBut(pathname, q) => normalisePath(q) = key
        /\ \A k \in CONTENT_KEYS : IsCanonical(k) /\ normalisePath(k) = k

C10_Witness ==
    /\ fstep = "normalised"
    /\ pathname = <<"/", "A", "b", "o", "u", "t", "/">>
    /\ key = ABOUT
    /\ normalisePath(<<"/", "A", "B", "O", "U", "T">>) = key
    /\ normalisePath(<<"/", "a", "b", "o", "u", "t", "/", "/">>) = key

---------------------------------------------------------------------------
(* Properties of setActiveNav. *)

StartsWith(c, t) == Len(t) <= Len(c) /\ \A i \in 1..Len(t) : c[i] = t[i]

ShouldBeActive(link) ==
    LET target == normalisePath(IF link.href = UNDEF THEN <<>> ELSE link.href)
        current == normalisePath(pathname)
    IN  target = current \/ (target # <<"/">> /\ StartsWith(current, target))

\* C7: after setActiveNav a link carries is-active and aria-current="page"
\* iff its normalised target equals the normalised current path or is a
\* non-root prefix of it, and carries neither otherwise.
C7_ActiveIffMatch ==
    fstep = "marked" =>
        \A i \in DOMAIN navLinks :
            IF ShouldBeActive(navLinks[i])
            THEN navLinks[i].isActive /\ navLinks[i].ariaCurrent = "page"
            ELSE ~navLinks[i].isActive /\ navLinks[i].ariaCurrent = "none"

C7_Witness ==
    /\ fstep = "marked"
    /\ pathname = <<"/", "a", "b", "o", "u", "t", "/", "t", "e", "a", "m">>
    /\ navLinks[1].href = ABOUT
    /\ navLinks[1].isActive /\ navLinks[1].ariaCurrent = "page"
    /\ navLinks[2].href = <<"/">>
    /\ ~navLinks[2].isActive /\ navLinks[2].ariaCurrent = "none"

---------------------------------------------------------------------------
(* Properties of the section renderers. *)

EntityOf(c) ==
    CASE c = "&" -> <<"&", "a", "m", "p", ";">>
      [] c = "<" -> <<"&", "l", "t", ";">>
      [] c = ">" -> <<"&", "g", "t", ";">>
      [] c = "\"" -> <<"&", "q", "u", "o", "t", ";">>
      [] OTHER -> <<c>>

\* v with each reserved character written as its entity
Escaped(v) == Flatten([i \in 1..Len(v) |-> EntityOf(v[i])])

\* Escaped(v) as a text-block shows it: line breaks as <br>
EscapedBr(v) ==
    LET e == Escaped(v)
    IN  Flatten([i \in 1..Len(e) |-> IF e[i] = "\n" THEN <<"<br>">> ELSE <<e[i]>>])

Contains(hay, needle) ==
    \E i \in 0..Len(hay) :
        /\ i + Len(needle) <= Len(hay)
        /\ SubSeq(hay, i + 1, i + Len(needle)) = needle

\* No character of a field value is a raw <, > or ", and every & begins
\* one of the four entities.  (Template literals are whole tokens.)
NoRawReserved(html) ==
    \A i \in 1..Len(html) :
        /\ html[i] \notin {"<", ">", "\""}
        /\ html[i] = "&" =>
              \E e \in {EntityOf("&"), EntityOf("<"), EntityOf(">"), EntityOf("\"")} :
                  /\ i + Len(e) - 1 <= Len(html)
                  /\ SubSeq(html, i, i + Len(e) - 1) = e

\* The string fields each kind of section interpolates.
FieldsShown(t) ==
    CASE t \in {"hero", "page-header"} -> {"heading", "subheading"}
      [] t = "statement" -> {"body"}
      [] t = "text-block" -> {"label", "body"}
      [] t \in {"link", "back-link"} -> {"url", "label"}
      [] t = "legal-document" -> {"last_updated", "body"}
      [] t \in RegisteredTypes -> {"label"}
      [] OTHER -> {"body"}

ItemFieldsShown(t) ==
    CASE t = "summary" -> {"label", "value"}
      [] t = "definition-list" -> {"term", "definition"}
      [] t = "activity-list" -> {"heading", "description"}
      [] t = "persons" -> {"name", "title", "bio"}
      [] t = "contact-block" -> {"method", "value", "href"}
      [] t = "legal-nav" -> {"url", "label"}
      [] OTHER -> {}

LegalBodyAt(html) == CHOOSE i \in 1..Len(html) : html[i] = "<div class=\"legal-body\">"

\* C1: every interpolated string field appears escaped in the markup of
\* every section type and of the fallback; only the body of a
\* legal-document appears verbatim.
C1_FieldsEscaped ==
    (fstep = "rendered" /\ out.kind = "element") =>
        LET t == section.type
            html == out.innerHTML
        IN  /\ \A f \in FieldsShown(t) :
                  Truthy(section[f]) =>
                      IF t = "legal-document" /\ f = "body"
                      THEN Contains(html, <<"<div class=\"legal-body\">">>
                                          \o section[f] \o <<"</div>", "</div>">>)
                      ELSE IF t = "text-block" /\ f = "body"
                      THEN Contains(html, <<"<div class=\"text-body\">">>
                                          \o EscapedBr(section[f]) \o <<"</div>">>)
                      ELSE Contains(html, Escaped(section[f]))
            /\ section.hasItems =>
                  \A i \in 1..Len(section.items) : \A f \in ItemFieldsShown(t) :
                      section.items[i][f] # UNDEF =>
                          Contains(html, Escaped(section.items[i][f]))
            /\ IF t = "legal-document"
               THEN NoRawReserved(SubSeq(html, 1, LegalBodyAt(html)))
               ELSE NoRawReserved(html)

C1_Witness ==
    /\ fstep = "rendered"
    /\ section.type = "statement"
    /\ section.body = SCRIPT
    /\ out.innerHTML =
          <<"<div class=\"section-inner\">", "<p class=\"statement-body\">",
            "&", "l", "t", ";", "s", "c", "r", "i", "p", "t", "&", "g", "t", ";",
            "</p>", "</div>">>

\* C2: a section of an unregistered type renders, without throwing, as
\* the fallback container: its escaped body in a paragraph, or nothing.
C2_UnknownTypeFallsBack ==
    (fstep = "rendered" /\ section.kind = "mapping"
        /\ section.type \notin RegisteredTypes) =>
        /\ out.kind = "element"
        /\ out.innerHTML =
              <<"<div class=\"section-inner\">">>
              \o (IF Truthy(section.body)
                  THEN <<"<p>">> \o Escaped(section.body) \o <<"</p>">>
                  ELSE <<>>)
              \o <<"</div>">>

---------------------------------------------------------------------------
(* Properties of the page load. *)

Terminal == state \in {"NotFound", "Rendered", "Failed"}

StaticDesc == IF hasMetaDesc THEN InitialDesc ELSE UNDEF

ContentErrorLogged == \E i \in 1..Len(consoleErrors) : consoleErrors[i] = "content"
NavErrorLogged == \E i \in 1..Len(consoleErrors) : consoleErrors[i] = "nav"

\* C3: a document renders completely or not at all: in Failed the root
\* holds only the failure fragment and title and description are the
\* static ones; in Rendered the root holds every section's rendering.
C3_AllOrNothing ==
    /\ state = "Failed" =>
          /\ rootHTML = FailedRoot
          /\ title = InitialTitle
          /\ metaDesc = StaticDesc
    /\ state = "Rendered" =>
          /\ rootHTML.kind = "sections"
          /\ Len(rootHTML.children) = Len(sectionsOf(doc))
          /\ \A i \in 1..Len(sectionsOf(doc)) :
                rootHTML.children[i] = renderSection(doc.sections[i])

ContentLoadFailed ==
    \/ contentOutcome.settled = "response" /\ contentOutcome.status \notin 200..299
    \/ contentOutcome.parsed = "error"

\* C4: after a non-success status or a parse failure no section is
\* rendered and setActiveNav does not run, and once the chain has settled
\* the assembler is Failed, the root shows the failure fragment and the
\* error is logged.
C4_FetchFailureFails ==
    ContentLoadFailed =>
        /\ renderCalls = 0
        /\ activeNavRuns = 0
        /\ navLinks = SiteLinks
        /\ state \in {"Fetching", "Failed"}
        /\ pc = "settled" =>
              /\ state = "Failed"
              /\ visited = <<"Idle", "Resolving", "Fetching", "Failed">>
              /\ rootHTML = FailedRoot
              /\ ContentErrorLogged

C4_Witness ==
    /\ state = "Failed"
    /\ contentOutcome.status = 500
    /\ rootHTML = FailedRoot
    /\ ContentErrorLogged

\* C5: when the normalised path is no key of the content map, init ends
\* in NotFound by way of Resolving and stays there, shows the not-found
\* fragment and fetches no content document.
C5_MissIsNotFound ==
    (pc # "boot" /\ hasRoot /\ normalisePath(pathname) \notin CONTENT_KEYS) =>
        /\ state = "NotFound"
        /\ visited = <<"Idle", "Resolving", "NotFound">>
        /\ rootHTML = NotFoundRoot
        /\ contentFetches = <<>>
        /\ pc = "settled"

C5_Witness ==
    /\ state = "NotFound"
    /\ pathname = <<"/", "a", "b", "o", "u", "t", "/", "t", "e", "a", "m">>
    /\ chromePc = "done"
    /\ contentFetches = <<>>

\* C6: in every terminal state aria-busy is "false", and it is still
\* "true" while the content fetch is pending.
C6_BusyClearedAtEnd ==
    /\ Terminal => ariaBusy = "false"
    /\ pc \in {"fetching", "text"} => ariaBusy = "true"

C6_Witness ==
    /\ state = "NotFound"
    /\ ariaBusy = "false"
    /\ pc = "settled"

\* C8: however often and whenever loadNavConfig is called, one fetch of
\* the navigation document is issued and every caller gets the same
\* promise.
C8_SingleFlight ==
    /\ navFetches <= 1
    /\ calls >= 1 =>
          /\ navFetches = 1
          /\ navConfigPromise = 1
          /\ \A r \in returned : r.promise = 1

C8_Witness ==
    /\ navFetches = 1
    /\ navPromiseState.status = "fulfilled"
    /\ navPromiseState.value.kind = "null"
    /\ NavErrorLogged
    /\ \E r \in returned : r.seen = "none"
    /\ \E r \in returned : r.seen = "completed"

NavLoadFailed ==
    \/ navOutcome.settled = "network-error"
    \/ navOutcome.settled = "response" /\ navOutcome.status \notin 200..299
    \/ navOutcome.parsed = "error"

\* The terminal state the content inputs alone call for.
ContentVerdict ==
    IF normalisePath(pathname) \notin CONTENT_KEYS THEN "NotFound"
    ELSE IF /\ contentOutcome.status = 200
            /\ contentOutcome.parsed = "ok"
            /\ doc.kind = "mapping"
            /\ badSections(sectionsOf(doc)) = {}
         THEN "Rendered"
         ELSE "Failed"

\* C9: a failure of the navigation document is only logged and leaves the
\* footer as it was; no step of the chrome chain changes the content root
\* or the assembler, whose terminal state is the one the content inputs
\* call for; and a populated footer does not depend on the content chain.
C9_FailureIsolation ==
    /\ [](NavLoadFailed => footer = InitialFooter)
    /\ []((NavLoadFailed /\ navPromiseState.status = "fulfilled") =>
             (NavErrorLogged /\ navPromiseState.value.kind = "null"))
    /\ [](pc = "settled" => state = ContentVerdict)
    /\ []((chromePc = "done" /\ navOutcome.parsed = "ok") =>
             footer = applySiteChrome(navPromiseState.value, InitialFooter,
                                      footerSlots))
    /\ [][(pc # "boot" /\ (footer' # footer \/ navPromiseState' # navPromiseState
                           \/ navOutcome' # navOutcome))
            => UNCHANGED <<pc, state, rootHTML, ariaBusy, title, metaDesc,
                           navLinks>>]_vars
    /\ [][pc' # pc => footer' = footer]_vars

C9_Witness ==
    /\ navOutcome.status = 500
    /\ chromePc = "done"
    /\ footer = InitialFooter
    /\ NavErrorLogged
    /\ state = "Rendered"

===========================================================================
